---- MODULE Spec2Model ----
(***************************************************************************)
(* Water Quality Predictor (water_quality_prediction.py).                  *)
(*                                                                         *)
(* A tkinter window with two text entries (temperature, date), a Predict   *)
(* button and three result labels.  At start-up a Keras model and two      *)
(* joblib scalers are loaded; every Predict click parses the two entries,  *)
(* builds the 4-element feature vector, runs it through                    *)
(* X_scaler.transform, model.predict and y_scaler.inverse_transform and    *)
(* writes the three labels, with two except clauses around the whole.      *)
(*                                                                         *)
(* Texts are sequences of characters, so that float() and                  *)
(* strptime('%Y/%m') are modelled by what they accept and return.          *)
(* sin/cos of multiples of 30 degrees are kept exact as (a + b*sqrt(3))/2. *)
(* A prediction holds eighths (binary-exact), so that the '.2f' format is  *)
(* the round-half-even of the value it prints.                             *)
(***************************************************************************)
EXTENDS Integers, Sequences, FiniteSets, TLC

VARIABLES
    pc,           \* position of main(): "start", "loaded", "ui", "mainloop", "crashed"
    model,        \* self.model: "unset" or the behaviour of the loaded model
    X_scaler,     \* self.X_scaler: "unset" or the behaviour of the loaded scaler
    y_scaler,     \* self.y_scaler: "unset" or the behaviour of the loaded scaler
    temp_entry,   \* text of self.temp_entry at the latest click
    date_entry,   \* text of self.date_entry at the latest click
    result_vars,  \* self.result_vars: the texts of the three StringVars
    log,          \* what the most recent handler did, in order
    errors_before,\* clicks in a row that ended in a dialog, before the latest click
    memo          \* an earlier click kept for comparison: fields, outcome, labels

vars == <<pc, model, X_scaler, y_scaler, temp_entry, date_entry, result_vars,
          log, errors_before, memo>>

----------------------------------------------------------------------------
(* Bounds of the model.                                                    *)

MaxStreak == 2     \* errors_before saturates here
YearSpan == 1      \* SpecEnc draws years base_year - YearSpan .. base_year + YearSpan
MaxFaulty == 1     \* artifacts of a session that are other than "ok", at most

----------------------------------------------------------------------------
(* Characters.  A text is a sequence of characters; a character is written *)
(* as the one-character string of itself when it is printable ASCII or one *)
(* of \t \n \f \r, and as "<U+XXXX>", its code point in hexadecimal, when  *)
(* it is any other.                                                        *)

HexChar(n) ==
    CASE n = 0 -> "0" [] n = 1 -> "1" [] n = 2 -> "2" [] n = 3 -> "3"
      [] n = 4 -> "4" [] n = 5 -> "5" [] n = 6 -> "6" [] n = 7 -> "7"
      [] n = 8 -> "8" [] n = 9 -> "9" [] n = 10 -> "A" [] n = 11 -> "B"
      [] n = 12 -> "C" [] n = 13 -> "D" [] n = 14 -> "E" [] n = 15 -> "F"

\* n in hexadecimal, with k digits at least.
RECURSIVE Hex(_, _)
Hex(n, k) ==
    IF n < 16 /\ k <= 1 THEN HexChar(n)
    ELSE Hex(n \div 16, k - 1) \o HexChar(n % 16)

CodePoint(n) == "<U+" \o Hex(n, 4) \o ">"

AsciiDigits == {"0", "1", "2", "3", "4", "5", "6", "7", "8", "9"}

\* The code point of the digit zero of every script but ASCII (the decimal
\* digits, category Nd, of Unicode 14.0, the database of Python 3.11); the
\* nine code points after each are its digits one to nine.
DigitZeros ==
    { 1632, 1776, 1984, 2406, 2534, 2662, 2790, 2918, 3046, 3174,
      3302, 3430, 3558, 3664, 3792, 3872, 4160, 4240, 6112, 6160,
      6470, 6608, 6784, 6800, 6992, 7088, 7232, 7248, 42528, 43216,
      43264, 43472, 43504, 43600, 44016, 65296, 66720, 68912, 69734, 69872,
      69942, 70096, 70384, 70736, 70864, 71248, 71360, 71472, 71904, 72016,
      72784, 73040, 73120, 92768, 92864, 93008, 120782, 120792, 120802, 120812,
      120822, 123200, 123632, 125264, 130032 }

\* The characters float() and int() read as a decimal digit, which are the
\* characters \d matches in a str pattern.
Digits == AsciiDigits \cup {CodePoint(z + v) : z \in DigitZeros, v \in 0..9}

\* The value of every digit: that of an ASCII digit, and the distance of any
\* other from the zero of its script.
DigitValues ==
    [c \in Digits |->
        CASE c = "0" -> 0 [] c = "1" -> 1 [] c = "2" -> 2 [] c = "3" -> 3
          [] c = "4" -> 4 [] c = "5" -> 5 [] c = "6" -> 6 [] c = "7" -> 7
          [] c = "8" -> 8 [] c = "9" -> 9
          [] OTHER -> CHOOSE v \in 0..9 : \E z \in DigitZeros : c = CodePoint(z + v)]

DigitVal(c) == DigitValues[c]

DigitChar(n) ==
    CASE n = 0 -> "0" [] n = 1 -> "1" [] n = 2 -> "2" [] n = 3 -> "3"
      [] n = 4 -> "4" [] n = 5 -> "5" [] n = 6 -> "6" [] n = 7 -> "7"
      [] n = 8 -> "8" [] n = 9 -> "9"

\* What float() strips from both ends of a str: the six ASCII blanks, and
\* every other character for which str.isspace() holds (NEL, NBSP, Ogham
\* space, U+2000..U+200A, the line and paragraph separators, U+202F, U+205F,
\* the ideographic space).  U+001C..U+001F are not among them.
Whitespace ==
    {" ", "\t", "\n", "\f", "\r", CodePoint(11)}
    \cup {CodePoint(n) : n \in {133, 160, 5760, 8232, 8233, 8239, 8287, 12288}}
    \cup {CodePoint(n) : n \in 8192..8202}

Lower(c) ==
    CASE c = "I" -> "i" [] c = "N" -> "n" [] c = "F" -> "f" [] c = "A" -> "a"
      [] c = "T" -> "t" [] c = "Y" -> "y" [] c = "E" -> "e" [] OTHER -> c

LowerSeq(s) == [i \in 1..Len(s) |-> Lower(s[i])]

\* The number a sequence of digit values stands for.
RECURSIVE NatOf(_)
NatOf(vs) ==
    IF vs = <<>> THEN 0
    ELSE 10 * NatOf(SubSeq(vs, 1, Len(vs) - 1)) + vs[Len(vs)]

\* int() of a sequence of digit characters.
SeqToNat(ds) == NatOf([i \in 1..Len(ds) |-> DigitVal(ds[i])])

RECURSIVE Pow10(_)
Pow10(k) == IF k = 0 THEN 1 ELSE 10 * Pow10(k - 1)

\* Index of the first element of s in set cs, 0 when there is none.
FirstIn(s, cs) ==
    IF \E i \in 1..Len(s) : s[i] \in cs
    THEN CHOOSE i \in 1..Len(s) : s[i] \in cs /\ \A j \in 1..(i - 1) : s[j] \notin cs
    ELSE 0

----------------------------------------------------------------------------
(* float(text): line 117.  The value is a record: kind "inf", "nan" or     *)
(* "fin"; a finite value is its sign and the decimal digits * 10^exp, the  *)
(* digits without leading and trailing zeros (none for a zero), standing   *)
(* for the double nearest to that decimal (ties to even).  Two records     *)
(* whose decimals round to one double are that one double, and what reads  *)
(* a record (TempEighths) reads the double.                                *)

\* The stripping float() applies before parsing.
Strip(s) ==
    LET keep == {i \in 1..Len(s) : s[i] \notin Whitespace}
    IN  IF keep = {} THEN <<>>
        ELSE SubSeq(s, CHOOSE i \in keep : \A j \in keep : i <= j,
                       CHOOSE i \in keep : \A j \in keep : i >= j)

\* A run of digits in which single underscores may separate digits.
IsDigitGroup(g) ==
    /\ g # <<>>
    /\ \A i \in 1..Len(g) : g[i] \in Digits \cup {"_"}
    /\ g[1] \in Digits
    /\ g[Len(g)] \in Digits
    /\ \A i \in 1..(Len(g) - 1) : ~(g[i] = "_" /\ g[i + 1] = "_")

DigitsOf(g) == SelectSeq(g, LAMBDA c : c \in Digits)

\* The values of the digits of a digit group.
DigitVals(g) == [i \in 1..Len(DigitsOf(g)) |-> DigitVal(DigitsOf(g)[i])]

NotAFloat == [ok |-> FALSE, kind |-> "none", neg |-> FALSE, digits |-> <<>>, exp |-> 0]

FloatInf(neg) == [ok |-> TRUE, kind |-> "inf", neg |-> neg, digits |-> <<>>, exp |-> 0]

FloatNaN == [ok |-> TRUE, kind |-> "nan", neg |-> FALSE, digits |-> <<>>, exp |-> 0]

\* 0.0 or -0.0.
FloatZero(neg) == [ok |-> TRUE, kind |-> "fin", neg |-> neg, digits |-> <<>>, exp |-> 0]

\* vs without its leading zeros.
DropLeadingZeros(vs) ==
    LET first == CHOOSE i \in 1..Len(vs) : vs[i] # 0 /\ \A j \in 1..(i - 1) : vs[j] = 0
    IN  IF \A i \in 1..Len(vs) : vs[i] = 0 THEN <<>>
        ELSE SubSeq(vs, first, Len(vs))

\* vs without its trailing zeros.
DropTrailingZeros(vs) ==
    LET last == CHOOSE i \in 1..Len(vs) : vs[i] # 0 /\ \A j \in (i + 1)..Len(vs) : vs[j] = 0
    IN  IF \A i \in 1..Len(vs) : vs[i] = 0 THEN <<>>
        ELSE SubSeq(vs, 1, last)

DigitAt(vs, i) == IF i <= Len(vs) THEN vs[i] ELSE 0

\* da * 10^ea < db * 10^eb, for digit sequences that do not start with 0.
DecimalLess(da, ea, db, eb) ==
    LET n == IF Len(da) >= Len(db) THEN Len(da) ELSE Len(db)
        Differ(i) == DigitAt(da, i) # DigitAt(db, i)
        first == CHOOSE i \in 1..n : Differ(i) /\ \A j \in 1..(i - 1) : ~Differ(j)
    IN  IF Len(da) + ea # Len(db) + eb THEN Len(da) + ea < Len(db) + eb
        ELSE /\ \E i \in 1..n : Differ(i)
             /\ DigitAt(da, first) < DigitAt(db, first)

\* The digits of 2^1024 - 2^970, half-way between the largest double and
\* 2^1024: a decimal at or above it rounds (ties to even) out of range.
OverflowDigits ==
    << 1, 7, 9, 7, 6, 9, 3, 1, 3, 4, 8, 6, 2, 3, 1, 5, 8, 0, 7, 9, 3, 7, 2, 8,
       9, 7, 1, 4, 0, 5, 3, 0, 3, 4, 1, 5, 0, 7, 9, 9, 3, 4, 1, 3, 2, 7, 1, 0,
       0, 3, 7, 8, 2, 6, 9, 3, 6, 1, 7, 3, 7, 7, 8, 9, 8, 0, 4, 4, 4, 9, 6, 8,
       2, 9, 2, 7, 6, 4, 7, 5, 0, 9, 4, 6, 6, 4, 9, 0, 1, 7, 9, 7, 7, 5, 8, 7,
       2, 0, 7, 0, 9, 6, 3, 3, 0, 2, 8, 6, 4, 1, 6, 6, 9, 2, 8, 8, 7, 9, 1, 0,
       9, 4, 6, 5, 5, 5, 5, 4, 7, 8, 5, 1, 9, 4, 0, 4, 0, 2, 6, 3, 0, 6, 5, 7,
       4, 8, 8, 6, 7, 1, 5, 0, 5, 8, 2, 0, 6, 8, 1, 9, 0, 8, 9, 0, 2, 0, 0, 0,
       7, 0, 8, 3, 8, 3, 6, 7, 6, 2, 7, 3, 8, 5, 4, 8, 4, 5, 8, 1, 7, 7, 1, 1,
       5, 3, 1, 7, 6, 4, 4, 7, 5, 7, 3, 0, 2, 7, 0, 0, 6, 9, 8, 5, 5, 5, 7, 1,
       3, 6, 6, 9, 5, 9, 6, 2, 2, 8, 4, 2, 9, 1, 4, 8, 1, 9, 8, 6, 0, 8, 3, 4,
       9, 3, 6, 4, 7, 5, 2, 9, 2, 7, 1, 9, 0, 7, 4, 1, 6, 8, 4, 4, 4, 3, 6, 5,
       5, 1, 0, 7, 0, 4, 3, 4, 2, 7, 1, 1, 5, 5, 9, 6, 9, 9, 5, 0, 8, 0, 9, 3,
       0, 4, 2, 8, 8, 0, 1, 7, 7, 9, 0, 4, 1, 7, 4, 4, 9, 7, 7, 9, 2 >>

\* The digits of 5^1075; 5^1075 * 10^-1075 is 2^-1075, half the smallest
\* double above zero: a decimal at or below it rounds (ties to even) to zero.
HalfMinDigits ==
    << 2, 4, 7, 0, 3, 2, 8, 2, 2, 9, 2, 0, 6, 2, 3, 2, 7, 2, 0, 8, 8, 2, 8, 4,
       3, 9, 6, 4, 3, 4, 1, 1, 0, 6, 8, 6, 1, 8, 2, 5, 2, 9, 9, 0, 1, 3, 0, 7,
       1, 6, 2, 3, 8, 2, 2, 1, 2, 7, 9, 2, 8, 4, 1, 2, 5, 0, 3, 3, 7, 7, 5, 3,
       6, 3, 5, 1, 0, 4, 3, 7, 5, 9, 3, 2, 6, 4, 9, 9, 1, 8, 1, 8, 0, 8, 1, 7,
       9, 9, 6, 1, 8, 9, 8, 9, 8, 2, 8, 2, 3, 4, 7, 7, 2, 2, 8, 5, 8, 8, 6, 5,
       4, 6, 3, 3, 2, 8, 3, 5, 5, 1, 7, 7, 9, 6, 9, 8, 9, 8, 1, 9, 9, 3, 8, 7,
       3, 9, 8, 0, 0, 5, 3, 9, 0, 9, 3, 9, 0, 6, 3, 1, 5, 0, 3, 5, 6, 5, 9, 5,
       1, 5, 5, 7, 0, 2, 2, 6, 3, 9, 2, 2, 9, 0, 8, 5, 8, 3, 9, 2, 4, 4, 9, 1,
       0, 5, 1, 8, 4, 4, 3, 5, 9, 3, 1, 8, 0, 2, 8, 4, 9, 9, 3, 6, 5, 3, 6, 1,
       5, 2, 5, 0, 0, 3, 1, 9, 3, 7, 0, 4, 5, 7, 6, 7, 8, 2, 4, 9, 2, 1, 9, 3,
       6, 5, 6, 2, 3, 6, 6, 9, 8, 6, 3, 6, 5, 8, 4, 8, 0, 7, 5, 7, 0, 0, 1, 5,
       8, 5, 7, 6, 9, 2, 6, 9, 9, 0, 3, 7, 0, 6, 3, 1, 1, 9, 2, 8, 2, 7, 9, 5,
       5, 8, 5, 5, 1, 3, 3, 2, 9, 2, 7, 8, 3, 4, 3, 3, 8, 4, 0, 9, 3, 5, 1, 9,
       7, 8, 0, 1, 5, 5, 3, 1, 2, 4, 6, 5, 9, 7, 2, 6, 3, 5, 7, 9, 5, 7, 4, 6,
       2, 2, 7, 6, 6, 4, 6, 5, 2, 7, 2, 8, 2, 7, 2, 2, 0, 0, 5, 6, 3, 7, 4, 0,
       0, 6, 4, 8, 5, 4, 9, 9, 9, 7, 7, 0, 9, 6, 5, 9, 9, 4, 7, 0, 4, 5, 4, 0,
       2, 0, 8, 2, 8, 1, 6, 6, 2, 2, 6, 2, 3, 7, 8, 5, 7, 3, 9, 3, 4, 5, 0, 7,
       3, 6, 3, 3, 9, 0, 0, 7, 9, 6, 7, 7, 6, 1, 9, 3, 0, 5, 7, 7, 5, 0, 6, 7,
       4, 0, 1, 7, 6, 3, 2, 4, 6, 7, 3, 6, 0, 0, 9, 6, 8, 9, 5, 1, 3, 4, 0, 5,
       3, 5, 5, 3, 7, 4, 5, 8, 5, 1, 6, 6, 6, 1, 1, 3, 4, 2, 2, 3, 7, 6, 6, 6,
       7, 8, 6, 0, 4, 1, 6, 2, 1, 5, 9, 6, 8, 0, 4, 6, 1, 9, 1, 4, 4, 6, 7, 2,
       9, 1, 8, 4, 0, 3, 0, 0, 5, 3, 0, 0, 5, 7, 5, 3, 0, 8, 4, 9, 0, 4, 8, 7,
       6, 5, 3, 9, 1, 7, 1, 1, 3, 8, 6, 5, 9, 1, 6, 4, 6, 2, 3, 9, 5, 2, 4, 9,
       1, 2, 6, 2, 3, 6, 5, 3, 8, 8, 1, 8, 7, 9, 6, 3, 6, 2, 3, 9, 3, 7, 3, 2,
       8, 0, 4, 2, 3, 8, 9, 1, 0, 1, 8, 6, 7, 2, 3, 4, 8, 4, 9, 7, 6, 6, 8, 2,
       3, 5, 0, 8, 9, 8, 6, 3, 3, 8, 8, 5, 8, 7, 9, 2, 5, 6, 2, 8, 3, 0, 2, 7,
       5, 5, 9, 9, 5, 6, 5, 7, 5, 2, 4, 4, 5, 5, 5, 0, 7, 2, 5, 5, 1, 8, 9, 3,
       1, 3, 6, 9, 0, 8, 3, 6, 2, 5, 4, 7, 7, 9, 1, 8, 6, 9, 4, 8, 6, 6, 7, 9,
       9, 4, 9, 6, 8, 3, 2, 4, 0, 4, 9, 7, 0, 5, 8, 2, 1, 0, 2, 8, 5, 1, 3, 1,
       8, 5, 4, 5, 1, 3, 9, 6, 2, 1, 3, 8, 3, 7, 7, 2, 2, 8, 2, 6, 1, 4, 5, 4,
       3, 7, 6, 9, 3, 4, 1, 2, 5, 3, 2, 0, 9, 8, 5, 9, 1, 3, 2, 7, 6, 6, 7, 2,
       3, 6, 3, 2, 8, 1, 2, 5 >>

\* Rounding the decimal vs * 10^exp to a double: overflow gives an infinity,
\* underflow a zero of the same sign.
ToDouble(neg, vs, exp) ==
    LET lead == DropLeadingZeros(vs)
        sig == DropTrailingZeros(lead)
        e10 == exp + (Len(lead) - Len(sig))
    IN  IF sig = <<>> THEN FloatZero(neg)
        ELSE IF ~DecimalLess(sig, e10, OverflowDigits, 0) THEN FloatInf(neg)
        ELSE IF ~DecimalLess(HalfMinDigits, -1075, sig, e10) THEN FloatZero(neg)
        ELSE [ok |-> TRUE, kind |-> "fin", neg |-> neg, digits |-> sig, exp |-> e10]

\* The digits of a natural number, none for 0.
RECURSIVE DigitsOfNat(_)
DigitsOfNat(n) == IF n = 0 THEN <<>> ELSE Append(DigitsOfNat(n \div 10), n % 10)

\* int() of the digit group of an exponent, or limit when it is above limit.
ExponentOf(g, limit) ==
    LET vs == DropLeadingZeros(DigitVals(g))
    IN  IF DecimalLess(DigitsOfNat(limit), 0, vs, 0) THEN limit ELSE NatOf(vs)

\* The decimal literal after the sign: digits [. digits] [e [sign] digits].
\* An exponent that exceeds the length of the mantissa by more than 2000 takes
\* the value out of the range of the doubles whatever the mantissa's digits
\* are, to an infinity or to a zero, and so does every greater one: taking
\* such an exponent as the limit changes no result.
ParseDecimal(neg, body) ==
    LET e == FirstIn(body, {"e"})
        m == IF e = 0 THEN body ELSE SubSeq(body, 1, e - 1)
        x == IF e = 0 THEN <<>> ELSE SubSeq(body, e + 1, Len(body))
        xsigned == x # <<>> /\ x[1] \in {"+", "-"}
        xdigits == IF xsigned THEN SubSeq(x, 2, Len(x)) ELSE x
        p == FirstIn(m, {"."})
        ip == IF p = 0 THEN m ELSE SubSeq(m, 1, p - 1)
        fp == IF p = 0 THEN <<>> ELSE SubSeq(m, p + 1, Len(m))
        wellformed ==
            /\ e # 0 => IsDigitGroup(xdigits)
            /\ ip = <<>> \/ IsDigitGroup(ip)
            /\ fp = <<>> \/ IsDigitGroup(fp)
            /\ ~(ip = <<>> /\ fp = <<>>)
        limit == Len(m) + 2000
        xval == IF e = 0 THEN 0
                ELSE IF xsigned /\ x[1] = "-" THEN 0 - ExponentOf(xdigits, limit)
                ELSE ExponentOf(xdigits, limit)
    IN  IF ~wellformed THEN NotAFloat
        ELSE ToDouble(neg, DigitVals(ip) \o DigitVals(fp), xval - Len(DigitsOf(fp)))

\* float(s) for a str s: the parsed value, or ok = FALSE for ValueError.
ParseFloat(s) ==
    LET t == Strip(s)
        signed == t # <<>> /\ t[1] \in {"+", "-"}
        neg == signed /\ t[1] = "-"
        body == LowerSeq(IF signed THEN SubSeq(t, 2, Len(t)) ELSE t)
    IN  IF body \in {<<"i", "n", "f">>, <<"i", "n", "f", "i", "n", "i", "t", "y">>}
        THEN FloatInf(neg)
        ELSE IF body = <<"n", "a", "n">> THEN FloatNaN
        ELSE ParseDecimal(neg, body)

----------------------------------------------------------------------------
(* datetime.strptime(text, '%Y/%m'): line 121.                             *)

NotADate == [ok |-> FALSE, year |-> 0, month |-> 0]

\* %m is the regular expression 1[0-2]|0[1-9]|[1-9], of ASCII digits: the
\* length of the prefix of s it matches, 0 when it matches none.
MonthMatch(s) ==
    IF Len(s) >= 2 /\ s[1] = "1" /\ s[2] \in {"0", "1", "2"} THEN 2
    ELSE IF Len(s) >= 2 /\ s[1] = "0" /\ s[2] \in AsciiDigits \ {"0"} THEN 2
    ELSE IF Len(s) >= 1 /\ s[1] \in AsciiDigits \ {"0"} THEN 1
    ELSE 0

\* %Y is \d\d\d\d (any four decimal digits), then a literal '/', then %m;
\* text left over after the match and a year below datetime.MINYEAR are both
\* ValueError.
ParseDate(s) ==
    LET rest == SubSeq(s, 6, Len(s))
        k == MonthMatch(rest)
        year == SeqToNat(SubSeq(s, 1, 4))
    IN  IF Len(s) < 6 THEN NotADate
        ELSE IF \E i \in 1..4 : s[i] \notin Digits THEN NotADate
        ELSE IF s[5] # "/" THEN NotADate
        ELSE IF k = 0 \/ k # Len(rest) THEN NotADate
        ELSE IF year < 1 THEN NotADate
        ELSE [ok |-> TRUE, year |-> year, month |-> SeqToNat(rest)]

----------------------------------------------------------------------------
(* Feature engineering: lines 123-132.                                     *)

base_year == 2010

\* sin(2*pi*k/12) for k in 0..11, exact: the pair <<a, b>> is (a + b*sqrt(3))/2.
SinOfTwelfths(k) ==
    CASE k = 0 -> <<0, 0>>   [] k = 1 -> <<1, 0>>   [] k = 2 -> <<0, 1>>
      [] k = 3 -> <<2, 0>>   [] k = 4 -> <<0, 1>>   [] k = 5 -> <<1, 0>>
      [] k = 6 -> <<0, 0>>   [] k = 7 -> <<-1, 0>>  [] k = 8 -> <<0, -1>>
      [] k = 9 -> <<-2, 0>>  [] k = 10 -> <<0, -1>> [] k = 11 -> <<-1, 0>>

\* cos(x) = sin(x + pi/2).
CosOfTwelfths(k) == SinOfTwelfths((k + 3) % 12)

\* The angle 2*pi*month/6: the period halved.
MonthSinHalfPeriod(month) == SinOfTwelfths((2 * month) % 12)

MonthSin(month) == SinOfTwelfths(month % 12)

MonthCos(month) == CosOfTwelfths(month % 12)

\* The offset taken the other way round.
YearOffsetReversed(year) == base_year - year

YearOffset(year) == year - base_year

\* The vector with the two month features in the other order.
InputDataSwapped(temperature, month, year) ==
    <<temperature, MonthCos(month), MonthSin(month), YearOffset(year)>>

\* np.array([[temperature, month_sin, month_cos, year]])
InputData(temperature, month, year) ==
    <<temperature, MonthSin(month), MonthCos(month), YearOffset(year)>>

----------------------------------------------------------------------------
(* The loaded artifacts: lines 31, 37, 38 and their calls at 135-141.      *)
(* Each is a fixed function for the session.  A call returns ("ok"),       *)
(* raises a ValueError, raises another Exception (a TypeError, say), or    *)
(* raises one of the two only on a temperature that is not finite (as a    *)
(* scaler that validates its input does, with a ValueError).  The y scaler *)
(* may also return a row that is not three numbers: a row of two, a row of *)
(* strings, or a row whose second element is a string.                     *)

Behaviours ==
    {"ok", "ValueError", "Exception", "ValueError_if_not_finite", "Exception_if_not_finite"}

RowBehaviours == {"row_of_two", "row_of_strings", "string_second"}

XScalerBehaviours == Behaviours

ModelBehaviours == Behaviours

YScalerBehaviours == Behaviours \cup RowBehaviours

\* What the three files can hold, as <<X scaler, model, y scaler>>.
ArtifactSets ==
    { a \in XScalerBehaviours \X ModelBehaviours \X YScalerBehaviours :
        Cardinality({i \in 1..3 : a[i] # "ok"}) <= MaxFaulty }

\* The exception a call on an artifact raises for the vector it stems from,
\* "none" when it returns.  An attribute that was never set has no such
\* method: AttributeError, an Exception.
RaisedBy(behaviour, input_data) ==
    CASE behaviour \in {"ok"} \cup RowBehaviours -> "none"
      [] behaviour = "ValueError" -> "ValueError"
      [] behaviour = "ValueError_if_not_finite" ->
            IF input_data[1].kind # "fin" THEN "ValueError" ELSE "none"
      [] behaviour = "Exception_if_not_finite" ->
            IF input_data[1].kind # "fin" THEN "Exception" ELSE "none"
      [] OTHER -> "Exception"

\* The digits of ds * m + carry, for a digit sequence ds and a digit m.
RECURSIVE TimesPlus(_, _, _)
TimesPlus(ds, m, carry) ==
    IF ds = <<>> THEN DigitsOfNat(carry)
    ELSE Append(TimesPlus(SubSeq(ds, 1, Len(ds) - 1), m,
                          (ds[Len(ds)] * m + carry) \div 10),
                (ds[Len(ds)] * m + carry) % 10)

RECURSIVE Log2(_)
Log2(k) == IF k < 2 THEN 0 ELSE 1 + Log2(k \div 2)

RECURSIVE Pow2(_)
Pow2(k) == IF k = 0 THEN 1 ELSE 2 * Pow2(k - 1)

RECURSIVE Pow5Digits(_)
Pow5Digits(j) == IF j = 0 THEN <<1>> ELSE TimesPlus(Pow5Digits(j - 1), 5, 0)

\* The j digits of 10^j - 5^j (1 - 2^-j is these digits * 10^-j), for the j
\* that the eighths 1/8 .. 8000/8 call for.
DigitsBelowOne ==
    [j \in 41..54 |->
        LET p == Pow5Digits(j)
            pad == j - Len(p)
        IN  [i \in 1..j |-> IF i <= pad THEN 9
                            ELSE IF i < j THEN 9 - p[i - pad]
                            ELSE 10 - p[i - pad]]]

\* The digits of k * 10^j - 5^j: k - 2^-j is these digits * 10^-j.
DigitsBelow(k, j) == DigitsOfNat(k - 1) \o DigitsBelowOne[j]

\* int(8 * t) for a finite double t, cut to 8000 in magnitude from
\* |t| >= 1000 on.  t is the double nearest to the decimal d of its record
\* (ties to even), and k/8 is a double for every k in 1..8000, so that
\* 8 * t >= k exactly when d is at or above the middle between k/8 and the
\* double just below it: 8 * d >= k - 2^(E - 53) where 2^E <= k < 2^(E + 1),
\* and k - 2^(E - 54) when k = 2^E, the doubles below a power of two being
\* twice as dense.
TempEighths(t) ==
    LET a == TimesPlus(t.digits, 8, 0)
        whole_len == Len(a) + t.exp
        whole == IF whole_len <= 0 THEN 0
                 ELSE IF whole_len <= Len(a) THEN NatOf(SubSeq(a, 1, whole_len))
                 ELSE NatOf(a) * Pow10(whole_len - Len(a))
        k == whole + 1
        j == IF k = Pow2(Log2(k)) THEN 54 - Log2(k) ELSE 53 - Log2(k)
        mag == IF t.digits = <<>> THEN 0
               ELSE IF Len(t.digits) + t.exp > 3 THEN 8000
               ELSE IF ~DecimalLess(a, t.exp, DigitsBelow(k, j), 0 - j) THEN k
               ELSE whole
    IN  IF t.neg THEN 0 - mag ELSE mag

\* X_scaler.transform(input_data), when it returns.
Transform(input_data) == [scaled |-> input_data]

\* model.predict(input_normalized), when it returns.
ModelPredict(input_normalized) == [predicted |-> input_normalized]

\* The elements of a prediction row: a number (held in eighths), a nan, a str.
Num(e) == [kind |-> "num", eighths |-> e]

NaN == [kind |-> "nan", eighths |-> 0]

Str == [kind |-> "str", eighths |-> 0]

\* The row of three numbers a y scaler fitted on three targets returns, a
\* function of the features.
ThreeNumbers(prediction_normalized) ==
    LET v == prediction_normalized.predicted.scaled
        t8 == TempEighths(v[1])
    IN  IF v[1].kind # "fin" THEN <<NaN, NaN, NaN>>
        ELSE << Num(40 + t8 + 8 * v[4]),
                Num(200 - t8 + 3 * v[2][1] + v[2][2]),
                Num(56 + v[3][1] + 2 * v[3][2] + v[4]) >>

\* y_scaler.inverse_transform(prediction_normalized), when it returns: the
\* row prediction[0].
InverseTransform(Y, prediction_normalized) ==
    CASE Y = "row_of_two" -> SubSeq(ThreeNumbers(prediction_normalized), 1, 2)
      [] Y = "row_of_strings" -> <<Str, Str, Str>>
      [] Y = "string_second" ->
            [ThreeNumbers(prediction_normalized) EXCEPT ![2] = Str]
      [] OTHER -> ThreeNumbers(prediction_normalized)

----------------------------------------------------------------------------
(* The '.2f' format and the label texts: lines 85-87 and 144-146.          *)

TwoDigits(n) == DigitChar(n \div 10) \o DigitChar(n % 10)

\* format(x, '.2f') of a number x = e/8 (hundredths, ties to even) or a nan.
Format2f(x) ==
    LET a == IF x.eighths < 0 THEN 0 - x.eighths ELSE x.eighths
        q == (a * 25) \div 2
        tie == (a * 25) % 2 = 1
        cents == IF tie /\ q % 2 = 1 THEN q + 1 ELSE q
    IN  IF x.kind = "nan" THEN "nan"
        ELSE (IF x.eighths < 0 THEN "-" ELSE "")
             \o ToString(cents \div 100) \o "." \o TwoDigits(cents % 100)

NO3Text(x) == "Nitrate (NO₃): " \o Format2f(x) \o " mg/L"

SO4Text(x) == "Sulphate (SO₄): " \o Format2f(x) \o " mg/L"

pHText(x) == "pH Value: " \o Format2f(x)

InitialResultVars == [NO3 |-> NO3Text(Num(0)), SO4 |-> SO4Text(Num(0)), pH |-> pHText(Num(0))]

\* The keys of self.result_vars in the order lines 144-146 set them.
LabelNames == <<"NO3", "SO4", "pH">>

\* The f-string of the i-th of lines 144-146.
LabelText(i, x) ==
    CASE i = 1 -> NO3Text(x) [] i = 2 -> SO4Text(x) [] i = 3 -> pHText(x)

\* What building the i-th f-string raises, "none" when it is built:
\* prediction[0][i] past the end of the row is an IndexError, and '.2f' on a
\* str is a ValueError.
FormatRaises(prediction, i) ==
    IF Len(prediction) < i THEN "IndexError"
    ELSE IF prediction[i].kind = "str" THEN "ValueError"
    ELSE "none"

----------------------------------------------------------------------------
(* What a handler did is logged as events [op, arg, raised]: a call, its   *)
(* arguments, and the exception it raised ("none" when it returned).       *)

Event(op, arg, raised) == [op |-> op, arg |-> arg, raised |-> raised]

Returned(op, arg) == Event(op, arg, "none")

\* messagebox.showerror(title, ...)
ShowError(title) == Returned("showerror", <<title>>)

\* The except clauses in the other order: the broad one comes first.
ExceptTitleBroadFirst(exc) == "Prediction Error"

\* The except clauses of predict_water_quality, in their order: lines 148-151.
ExceptTitle(exc) ==
    IF exc = "ValueError" THEN "Input Error" ELSE "Prediction Error"

\* The try body left where something raised: the matching except clause shows
\* its dialog and the handler returns; the labels keep what they hold.
Caught(events, exc, labels) ==
    [log |-> Append(events, ShowError(ExceptTitle(exc))), labels |-> labels]

\* Lines 144-146 from the i-th on: each label is formatted and then set, one
\* after the other, so a line that raises leaves the labels before it set.
RECURSIVE SetLabels(_, _, _, _)
SetLabels(i, events, prediction, labels) ==
    IF i > 3 THEN [log |-> events, labels |-> labels]
    ELSE IF FormatRaises(prediction, i) # "none"
    THEN Caught(events, FormatRaises(prediction, i), labels)
    ELSE SetLabels(i + 1,
                   Append(events, Returned("set", <<LabelNames[i],
                                                    LabelText(i, prediction[i])>>)),
                   prediction,
                   [labels EXCEPT ![LabelNames[i]] = LabelText(i, prediction[i])])

\* Lines 134-146, with the vector built: scale, infer, denormalise, then set
\* the labels; a raising call leaves the try body where it stands.
Inference(parsed, input_data, X, M, Y, labels) ==
    LET input_normalized == Transform(input_data)
        prediction_normalized == ModelPredict(Transform(input_data))
        scaled == Append(parsed, Returned("X_scaler.transform", <<input_data>>))
        inferred == Append(scaled, Returned("model.predict", <<input_normalized>>))
        denormed == Append(inferred,
                      Returned("y_scaler.inverse_transform", <<prediction_normalized>>))
        x == RaisedBy(X, input_data)
        m == RaisedBy(M, input_data)
        y == RaisedBy(Y, input_data)
    IN  IF x # "none"
        THEN Caught(Append(parsed, Event("X_scaler.transform", <<input_data>>, x)),
                    x, labels)
        ELSE IF m # "none"
        THEN Caught(Append(scaled, Event("model.predict", <<input_normalized>>, m)),
                    m, labels)
        ELSE IF y # "none"
        THEN Caught(Append(inferred,
                      Event("y_scaler.inverse_transform", <<prediction_normalized>>, y)),
                    y, labels)
        ELSE SetLabels(1, denormed, InverseTransform(Y, prediction_normalized), labels)

\* Each field validated on its own, with a dialog for each that fails.
TryBodyEachField(temp_text, date_text, temperature, date, X, M, Y, labels) ==
    IF ~temperature.ok /\ ~date.ok
    THEN [log |-> << Event("float", temp_text, "ValueError"), ShowError("Input Error"),
                     Event("strptime", date_text, "ValueError"), ShowError("Input Error") >>,
          labels |-> labels]
    ELSE IF ~temperature.ok
    THEN Caught(<<Event("float", temp_text, "ValueError")>>, "ValueError", labels)
    ELSE IF ~date.ok
    THEN Caught(<<Returned("float", temp_text),
                  Event("strptime", date_text, "ValueError")>>, "ValueError", labels)
    ELSE Inference(<<Returned("float", temp_text), Returned("strptime", date_text)>>,
                   InputData(temperature, date.month, date.year), X, M, Y, labels)

\* Lines 117-132, with the values float() and strptime() give.
TryBody(temp_text, date_text, temperature, date, X, M, Y, labels) ==
    IF ~temperature.ok
    THEN Caught(<<Event("float", temp_text, "ValueError")>>, "ValueError", labels)
    ELSE IF ~date.ok
    THEN Caught(<<Returned("float", temp_text),
                  Event("strptime", date_text, "ValueError")>>, "ValueError", labels)
    ELSE Inference(<<Returned("float", temp_text), Returned("strptime", date_text)>>,
                   InputData(temperature, date.month, date.year), X, M, Y, labels)

\* The handler keeping its first result: once the labels hold a prediction it
\* shows them again instead of computing.
PredictWaterQualityCached(temp_text, date_text, X, M, Y, labels) ==
    IF labels # InitialResultVars
    THEN [log |-> << Returned("float", temp_text), Returned("strptime", date_text),
                     Returned("set", <<"NO3", labels.NO3>>),
                     Returned("set", <<"SO4", labels.SO4>>),
                     Returned("set", <<"pH", labels.pH>>) >>,
          labels |-> labels]
    ELSE TryBody(temp_text, date_text, ParseFloat(temp_text), ParseDate(date_text),
                 X, M, Y, labels)

\* predict_water_quality, lines 114-151: the events of one click and the
\* labels it leaves, for the field texts and the loaded artifacts.
PredictWaterQuality(temp_text, date_text, X, M, Y, labels) ==
    TryBody(temp_text, date_text, ParseFloat(temp_text), ParseDate(date_text),
            X, M, Y, labels)

----------------------------------------------------------------------------
(* Reading a log.                                                          *)

Ops(l) == [i \in 1..Len(l) |-> l[i].op]

Dialogs(l) == SelectSeq(l, LAMBDA e : e.op = "showerror")

Raises(l) == SelectSeq(l, LAMBDA e : e.raised # "none")

Sets(l) == SelectSeq(l, LAMBDA e : e.op = "set")

IsClick(l) == l # <<>> /\ l[1].op = "float"

\* How a click ended: "updated", or the title of the dialog it showed.
Outcome(l) ==
    IF Dialogs(l) # <<>> THEN Dialogs(l)[1].arg[1]
    ELSE IF \E i \in 1..Len(l) : l[i].op = "set" THEN "updated"
    ELSE "none"

----------------------------------------------------------------------------
(* Inputs.                                                                 *)

\* Temperature texts: 21.5, a word, the empty entry, 1e400 (which float()
\* reads as an infinity), and 12 in Arabic-Indic digits after a vertical tab.
TempTexts ==
    { <<"2", "1", ".", "5">>, <<"a", "b", "c">>, <<>>, <<"1", "e", "4", "0", "0">>,
      <<CodePoint(11), CodePoint(1633), CodePoint(1634)>> }

\* Date texts: 2010/01, 2024/6 with its one-digit month, 2009/12 with the
\* year in Arabic-Indic digits (which parses), month 13, and 2010/01 with the
\* month in Arabic-Indic digits (which does not parse).
DateTexts ==
    { <<"2", "0", "1", "0", "/", "0", "1">>, <<"2", "0", "2", "4", "/", "6">>,
      <<CodePoint(1634), CodePoint(1632), CodePoint(1632), CodePoint(1641), "/", "1", "2">>,
      <<"2", "0", "1", "0", "/", "1", "3">>,
      <<"2", "0", "1", "0", "/", CodePoint(1632), CodePoint(1633)>> }

\* The texts of the sessions in which one click is kept for comparison.
KeptTempTexts ==
    { <<"2", "1", ".", "5">>, <<"a", "b", "c">>, <<"1", "e", "4", "0", "0">> }

KeptDateTexts ==
    { <<"2", "0", "1", "0", "/", "0", "1">>, <<"2", "0", "2", "4", "/", "6">>,
      <<"2", "0", "1", "0", "/", "1", "3">> }

\* Exceptions a load can end in.
LoadErrors == {"OSError", "ValueError"}

NoResultVars == [NO3 |-> "", SO4 |-> "", pH |-> ""]

NoMemo == [taken |-> FALSE, temp |-> <<>>, date |-> <<>>, outcome |-> "none",
           labels |-> NoResultVars]

----------------------------------------------------------------------------
(* main(), __init__ and the handlers.                                      *)

Init ==
    /\ pc = "start"
    /\ model = "unset"
    /\ X_scaler = "unset"
    /\ y_scaler = "unset"
    /\ temp_entry = <<>>
    /\ date_entry = <<>>
    /\ result_vars = NoResultVars
    /\ log = <<>>
    /\ errors_before = 0
    /\ memo = NoMemo

\* The except clause without its raise: the failure is reported and dropped.
LoadFailedSwallowed(events, exc) ==
    Append(events, ShowError("Model Loading Error"))

\* The except clause of load_model_and_scalers, lines 39-42: the dialog, then
\* the bare raise; the exception leaves __init__ and main().
LoadFailed(events, exc) ==
    events \o << ShowError("Model Loading Error"), Event("raise", <<>>, exc) >>

\* Where __init__ stands after line 19: an exception that left
\* load_model_and_scalers leaves __init__ and main() too (lines 19, 155).
AfterLoad(events) ==
    IF events # <<>> /\ events[Len(events)].op = "raise" THEN "crashed" ELSE "loaded"

\* load_model_and_scalers, lines 24-42.
LoadModelAndScalers ==
    /\ pc = "start"
    /\ \/ \E exc \in LoadErrors :
            /\ log' = LoadFailed(<<Event("load_model", <<>>, exc)>>, exc)
            /\ UNCHANGED <<model, X_scaler, y_scaler>>
       \/ \E m \in ModelBehaviours, exc \in LoadErrors :
            /\ model' = m
            /\ log' = LoadFailed(<<Returned("load_model", <<>>),
                                   Event("joblib.load", <<"X_scaler">>, exc)>>, exc)
            /\ UNCHANGED <<X_scaler, y_scaler>>
       \/ \E m \in ModelBehaviours, x \in XScalerBehaviours, exc \in LoadErrors :
            /\ model' = m
            /\ X_scaler' = x
            /\ log' = LoadFailed(<<Returned("load_model", <<>>),
                                   Returned("joblib.load", <<"X_scaler">>),
                                   Event("joblib.load", <<"y_scaler">>, exc)>>, exc)
            /\ UNCHANGED y_scaler
       \/ \E a \in ArtifactSets :
            /\ X_scaler' = a[1]
            /\ model' = a[2]
            /\ y_scaler' = a[3]
            /\ log' = <<Returned("load_model", <<>>),
                        Returned("joblib.load", <<"X_scaler">>),
                        Returned("joblib.load", <<"y_scaler">>)>>
    /\ pc' = AfterLoad(log')
    /\ UNCHANGED <<temp_entry, date_entry, result_vars, errors_before, memo>>

\* create_ui, lines 44-112, reached when load_model_and_scalers returned.
CreateUI ==
    /\ pc = "loaded"
    /\ pc' = "ui"
    /\ temp_entry' = <<>>
    /\ date_entry' = <<>>
    /\ result_vars' = InitialResultVars
    /\ log' = Append(log, Returned("create_ui", <<>>))
    /\ UNCHANGED <<model, X_scaler, y_scaler, errors_before, memo>>

\* root.mainloop(), line 156.
MainLoop ==
    /\ pc = "ui"
    /\ pc' = "mainloop"
    /\ log' = Append(log, Returned("mainloop", <<>>))
    /\ UNCHANGED <<model, X_scaler, y_scaler, temp_entry, date_entry, result_vars,
                   errors_before, memo>>

\* The state a handler run r leaves, for the entry texts t and d it read.
Handled(t, d, r) ==
    /\ temp_entry' = t
    /\ date_entry' = d
    /\ log' = r.log
    /\ result_vars' = r.labels
    /\ errors_before' = IF ~IsClick(log) \/ Outcome(log) = "updated" THEN 0
                        ELSE IF errors_before < MaxStreak THEN errors_before + 1
                        ELSE MaxStreak

\* The handler returning at once when the click before ended in a dialog.
ClickLatched(t, d) ==
    /\ pc = "mainloop"
    /\ Handled(t, d, IF IsClick(log) /\ Outcome(log) # "updated"
                     THEN [log |-> log, labels |-> result_vars]
                     ELSE PredictWaterQuality(t, d, X_scaler, model, y_scaler, result_vars))
    /\ UNCHANGED <<pc, model, X_scaler, y_scaler>>

\* A Predict click on the entries as the user left them (texts t and d): the
\* event loop runs predict_water_quality, which reads both.
Click(t, d) ==
    /\ pc = "mainloop"
    /\ Handled(t, d, PredictWaterQuality(t, d, X_scaler, model, y_scaler, result_vars))
    /\ UNCHANGED <<pc, model, X_scaler, y_scaler>>

Predict ==
    \E t \in TempTexts, d \in DateTexts : Click(t, d) /\ UNCHANGED memo

PredictKept ==
    \E t \in KeptTempTexts, d \in KeptDateTexts : Click(t, d) /\ UNCHANGED memo

\* The same click, kept once for comparison with the later ones.
PredictAndKeep ==
    /\ ~memo.taken
    /\ \E t \in KeptTempTexts, d \in KeptDateTexts :
        /\ Click(t, d)
        /\ memo' = [taken |-> TRUE, temp |-> t, date |-> d,
                    outcome |-> Outcome(log'), labels |-> result_vars']

Next ==
    \/ LoadModelAndScalers
    \/ CreateUI
    \/ MainLoop
    \/ Predict

Spec == Init /\ [][Next]_vars

NextMemo ==
    \/ LoadModelAndScalers
    \/ CreateUI
    \/ MainLoop
    \/ PredictKept
    \/ PredictAndKeep

SpecMemo == Init /\ [][NextMemo]_vars

----------------------------------------------------------------------------
(* The feature encoding on its own: the window is up with artifacts that   *)
(* loaded, the user has filled the entries, and the date entry ranges over *)
(* every year/month text of a span of years, with month texts 0..9 and     *)
(* 00..13, and over texts that are not of that form.                       *)

YearText(y) ==
    << DigitChar(y \div 1000), DigitChar((y \div 100) % 10),
       DigitChar((y \div 10) % 10), DigitChar(y % 10) >>

MonthTexts ==
    {<<DigitChar(k)>> : k \in 0..9} \cup {<<DigitChar(k \div 10), DigitChar(k % 10)>> : k \in 0..13}

\* Further temperature texts: -3 after a blank, +.5, 1_0, nan, InF, 1e, 1,5,
\* -0, 7 between a
\* form feed and a no-break space, 7 after U+001C, 1e1 with a fullwidth
\* exponent, the decimals on either side of the largest double's rounding
\* limit, 1e-324 and 3e-324 on either side of the smallest's, and 8 with
\* 7.9999999999999999999, which float() reads as 8.0 as well.
EncTempTexts ==
    TempTexts \cup
    { <<"8">>, <<"7", ".">> \o [i \in 1..19 |-> "9"] } \cup
    { <<" ", "-", "3">>, <<"+", ".", "5">>, <<"1", "_", "0">>, <<"n", "a", "n">>, <<"I", "n", "F">>,
      <<"1", "e">>, <<"1", ",", "5">>, <<"-", "0">>,
      <<"\f", "7", CodePoint(160)>>, <<CodePoint(28), "7">>,
      <<"1", "e", CodePoint(65297)>>,
      <<"1", ".", "7", "9", "7", "6", "9", "3", "1", "3", "4", "8", "6", "2", "3",
        "1", "5", "8", "e", "3", "0", "8">>,
      <<"1", ".", "7", "9", "7", "6", "9", "3", "1", "3", "4", "8", "6", "2", "3",
        "1", "5", "9", "e", "3", "0", "8">>,
      <<"1", "e", "-", "3", "2", "4">>, <<"3", "e", "-", "3", "2", "4">> }

\* The year in fullwidth digits.
WideYearText(y) == [i \in 1..4 |-> CodePoint(65296 + DigitVal(YearText(y)[i]))]

\* Every year of the span with every month text, the first year also in
\* fullwidth digits and every year also with a fullwidth month; then year 0,
\* a dash for the slash, a blank after the month, and a five-digit year.
EncDateTexts ==
    { <<"0", "0", "0", "0", "/", "0", "5">>, <<"2", "0", "1", "0", "-", "0", "1">>,
      <<"2", "0", "1", "0", "/", "1", " ">>, <<"2", "0", "1", "0", "0", "/", "1">> }
    \cup
    { yt \o <<"/">> \o m :
        yt \in {YearText(y) : y \in (base_year - YearSpan)..(base_year + YearSpan)}
               \cup {WideYearText(base_year - YearSpan)},
        m \in MonthTexts \cup {<<CodePoint(65297)>>} }

InitEnc ==
    /\ pc = "mainloop"
    /\ model = "ok"
    /\ X_scaler \in XScalerBehaviours
    /\ y_scaler = "ok"
    /\ temp_entry \in EncTempTexts
    /\ date_entry \in EncDateTexts
    /\ result_vars = InitialResultVars
    /\ log = <<Returned("load_model", <<>>),
               Returned("joblib.load", <<"X_scaler">>),
               Returned("joblib.load", <<"y_scaler">>),
               Returned("create_ui", <<>>), Returned("mainloop", <<>>)>>
    /\ errors_before = 0
    /\ memo = NoMemo

\* A Predict click on the entries as they stand.
PredictEnc == Click(temp_entry, date_entry) /\ UNCHANGED memo

NextEnc == PredictEnc

SpecEnc == InitEnc /\ [][NextEnc]_vars

----------------------------------------------------------------------------
(* Properties.                                                             *)

\* The date text is four decimal digits, a slash and a month number 1..12
\* in one or two ASCII digits.
IsYearMonth(d) ==
    /\ Len(d) \in {6, 7}
    /\ \A i \in 1..4 : d[i] \in Digits
    /\ d[5] = "/"
    /\ \A i \in 6..Len(d) : d[i] \in AsciiDigits
    /\ SeqToNat(SubSeq(d, 6, Len(d))) \in 1..12

YearOfText(d) ==
    1000 * DigitVal(d[1]) + 100 * DigitVal(d[2]) + 10 * DigitVal(d[3]) + DigitVal(d[4])

MonthOfText(d) == SeqToNat(SubSeq(d, 6, Len(d)))

\* Both entries parsed at the latest click.
WellFormed == ParseFloat(temp_entry).ok /\ ParseDate(date_entry).ok

\* No call on the loaded artifacts raises for a click on temperature text t.
ChainReturnsOn(t) ==
    \A b \in {X_scaler, model, y_scaler} : RaisedBy(b, <<ParseFloat(t)>>) = "none"

ChainReturns == ChainReturnsOn(temp_entry)

\* The y scaler returns a row of three numbers.
RowOfThreeNumbers == y_scaler \notin RowBehaviours

ChainOps == {"X_scaler.transform", "model.predict", "y_scaler.inverse_transform"}

LoadOps == {"load_model", "joblib.load"}

FullOrder ==
    << "float", "strptime", "X_scaler.transform", "model.predict",
       "y_scaler.inverse_transform", "set", "set", "set" >>

\* C1: a Predict click whose temperature text is not a number, or whose date
\* text is not year/month, shows exactly the 'Input Error' dialog, lets no
\* exception out of the handler and leaves the three labels as they were.
C1_MalformedInputIsInputError ==
    [][ (pc = "mainloop" /\ (~ParseFloat(temp_entry').ok \/ ~IsYearMonth(date_entry')))
        => /\ Dialogs(log') = <<ShowError("Input Error")>>
           /\ \A i \in 1..Len(log') : log'[i].op # "raise"
           /\ \A i \in 1..Len(log') : log'[i].op # "set"
           /\ result_vars' = result_vars ]_vars

\* A click on a malformed date, after an earlier click had updated the labels.
C1_Witness ==
    /\ IsClick(log)
    /\ ParseFloat(temp_entry).ok
    /\ ~IsYearMonth(date_entry)
    /\ Outcome(log) = "Input Error"
    /\ result_vars # InitialResultVars

\* C2: when a load fails, load_model_and_scalers shows the 'Model Loading
\* Error' dialog and then re-raises the exception the load raised; create_ui
\* has not run, the event loop is not entered, and nothing is handled after.
C2_LoadFailureIsFatal ==
    /\ [](  (\E i \in 1..Len(log) : log[i].op \in LoadOps /\ log[i].raised # "none")
            => /\ pc = "crashed"
               /\ Len(log) >= 3
               /\ log[Len(log) - 2].op \in LoadOps
               /\ log[Len(log) - 2].raised # "none"
               /\ log[Len(log) - 1].op = "showerror"
               /\ log[Len(log) - 1].arg = <<"Model Loading Error">>
               /\ log[Len(log)].op = "raise"
               /\ log[Len(log)].raised = log[Len(log) - 2].raised
               /\ result_vars = NoResultVars
               /\ \A i \in 1..Len(log) : log[i].op \notin {"create_ui", "mainloop", "float"} )
    /\ [][pc # "crashed"]_vars

\* The y scaler failed to load after the model and the X scaler had loaded.
C2_Witness ==
    /\ pc = "crashed"
    /\ model # "unset"
    /\ X_scaler # "unset"
    /\ y_scaler = "unset"
    /\ log[Len(log)].op = "raise"

\* The events of a click that ran the whole try body, in the documented
\* order, on the one vector [temperature, month_sin, month_cos, year offset].
RanInOrder(l) ==
    /\ Ops(l) = FullOrder
    /\ \A i \in 1..Len(l) : l[i].raised = "none"
    /\ Len(l[3].arg[1]) = 4
    /\ l[3].arg[1][1] = ParseFloat(temp_entry)
    /\ l[3].arg[1][2] = MonthSin(MonthOfText(date_entry))
    /\ l[3].arg[1][3] = MonthCos(MonthOfText(date_entry))
    /\ l[3].arg[1][4] = YearOfText(date_entry) - 2010
    /\ l[4].arg[1] = Transform(l[3].arg[1])
    /\ l[5].arg[1] = ModelPredict(l[4].arg[1])
    /\ <<l[6].arg[1], l[7].arg[1], l[8].arg[1]>> = <<"NO3", "SO4", "pH">>
    /\ result_vars.NO3 = NO3Text(ThreeNumbers(l[5].arg[1])[1])
    /\ result_vars.SO4 = SO4Text(ThreeNumbers(l[5].arg[1])[2])
    /\ result_vars.pH = pHText(ThreeNumbers(l[5].arg[1])[3])

\* The scaler and the model are called only after both fields have parsed.
ParsedFirst(l) ==
    \A i \in 1..Len(l) :
        l[i].op \in ChainOps
        => /\ i >= 3
           /\ l[1].op = "float" /\ l[1].raised = "none"
           /\ l[2].op = "strptime" /\ l[2].raised = "none"

\* The events stop at a raising call of the chain, followed by the dialog.
StoppedAtRaise(l) ==
    \E k \in 3..5 :
        /\ Ops(l) = Append(SubSeq(FullOrder, 1, k), "showerror")
        /\ l[k].raised # "none"
        /\ \A i \in 1..(k - 1) : l[i].raised = "none"

\* The chain returned and the events stop before one of the three label
\* sets, followed by the dialog.
StoppedAtLabel(l) ==
    \E k \in 5..7 :
        /\ Ops(l) = Append(SubSeq(FullOrder, 1, k), "showerror")
        /\ \A i \in 1..k : l[i].raised = "none"

\* C3 as stated: every click with well-formed input runs every step once, in
\* order, whatever the artifacts do.
C3_Original ==
    (IsClick(log) /\ WellFormed) => (RanInOrder(log) /\ ParsedFirst(log))

\* C3: a click with well-formed input whose scaler/model calls do not raise
\* and give a row of three numbers builds the one 4-element vector and runs
\* parse, transform, predict, inverse_transform and the label sets once each
\* in that order; a call that raises ends the steps there, and a row that is
\* not three numbers ends them before the label it cannot fill; no chain call
\* precedes the two parses.
C3_OrderWhenNothingRaises ==
    IsClick(log)
    => /\ ParsedFirst(log)
       /\ WellFormed => (RanInOrder(log) \/ StoppedAtRaise(log) \/ StoppedAtLabel(log))
       /\ (WellFormed /\ ChainReturns /\ RowOfThreeNumbers) => RanInOrder(log)
       /\ (WellFormed /\ ~ChainReturns) => StoppedAtRaise(log)
       /\ (WellFormed /\ ChainReturns /\ ~RowOfThreeNumbers) => StoppedAtLabel(log)
       /\ ~WellFormed => \A i \in 1..Len(log) : log[i].op \notin ChainOps

\* A well-formed click that ran to the label sets.
C3_Witness ==
    /\ IsClick(log)
    /\ WellFormed
    /\ Outcome(log) = "updated"
    /\ RanInOrder(log)

\* C4 as stated: the 'Input Error' dialog only for malformed text, and
\* any exception of the scaler/model calls on well-formed input through the
\* 'Prediction Error' dialog, none leaving the handler.
C4_Original ==
    IsClick(log)
    => /\ Outcome(log) = "Input Error" => ~WellFormed
       /\ (WellFormed /\ Raises(log) # <<>>)
            => /\ Dialogs(log) = <<ShowError("Prediction Error")>>
               /\ \A i \in 1..Len(log) : log[i].op # "raise"

\* The labels a click on texts t and d leaves when nothing raises and the
\* prediction is a row of three numbers.
LabelsFor(t, d) ==
    [NO3 |-> NO3Text(ThreeNumbers(ModelPredict(Transform(
                InputData(ParseFloat(t), ParseDate(d).month, ParseDate(d).year))))[1]),
     SO4 |-> SO4Text(ThreeNumbers(ModelPredict(Transform(
                InputData(ParseFloat(t), ParseDate(d).month, ParseDate(d).year))))[2]),
     pH |-> pHText(ThreeNumbers(ModelPredict(Transform(
                InputData(ParseFloat(t), ParseDate(d).month, ParseDate(d).year))))[3])]

\* C5 as stated: whatever clicks ended in a dialog before, a Predict click
\* with well-formed input and a chain that does not raise shows no dialog and
\* puts the new prediction in all three labels.
C5_Original ==
    [][ (pc = "mainloop" /\ ParseFloat(temp_entry').ok /\ ParseDate(date_entry').ok
         /\ ChainReturnsOn(temp_entry'))
        => /\ Dialogs(log') = <<>>
           /\ Len(Sets(log')) = 3 ]_vars

\* C5: whatever clicks ended in a dialog before, a Predict click with
\* well-formed input and a chain that does not raise and gives a row of
\* three numbers shows no dialog and puts the new prediction in all three
\* labels.
C5_ErrorsAreRecoverable ==
    [][ (pc = "mainloop" /\ ParseFloat(temp_entry').ok /\ ParseDate(date_entry').ok
         /\ ChainReturnsOn(temp_entry') /\ RowOfThreeNumbers)
        => /\ Dialogs(log') = <<>>
           /\ result_vars' = LabelsFor(temp_entry', date_entry')
           /\ Len(Sets(log')) = 3 ]_vars

\* The labels were updated by a click that came after a run of failed clicks,
\* some of them ending in the 'Prediction Error' dialog.
C5_Witness ==
    /\ IsClick(log)
    /\ errors_before = MaxStreak
    /\ Outcome(log) = "updated"
    /\ model = "Exception_if_not_finite"
    /\ result_vars = LabelsFor(temp_entry, date_entry)
    /\ result_vars # InitialResultVars

\* The vector the latest click built, when it built one.
BuiltVector == Len(log) >= 3 /\ log[3].op = "X_scaler.transform"

Vector == log[3].arg[1]

\* C6: for every date the parser accepts, the fourth feature is the year of
\* the text minus 2010 (negative before 2010, zero for 2010), whatever the
\* month and the temperature.
C6_YearOffset ==
    (IsClick(log) /\ ParseFloat(temp_entry).ok /\ ParseDate(date_entry).ok)
    => /\ BuiltVector
       /\ Vector[4] = YearOfText(date_entry) - 2010
       /\ YearOfText(date_entry) < 2010 => Vector[4] < 0
       /\ YearOfText(date_entry) = 2010 => Vector[4] = 0

\* A click on a date of a year before 2010.
C6_Witness ==
    /\ IsClick(log)
    /\ BuiltVector
    /\ YearOfText(date_entry) < 2010
    /\ Vector[4] < 0

\* The quarter of the squared distance between two encoded months, as the
\* pair <<a, b>> standing for (a + b*sqrt(3))/4.
Square(x) == <<x[1] * x[1] + 3 * x[2] * x[2], 2 * x[1] * x[2]>>

Diff(x, y) == <<x[1] - y[1], x[2] - y[2]>>

Plus(x, y) == <<x[1] + y[1], x[2] + y[2]>>

Distance2(m, n) ==
    Plus(Square(Diff(MonthSin(m), MonthSin(n))), Square(Diff(MonthCos(m), MonthCos(n))))

NextMonth(m) == (m % 12) + 1

\* (sin, cos) of month m + 1 is (sin, cos) of month m turned by 30 degrees.
TurnedBy30(m) ==
    /\ 2 * MonthSin(NextMonth(m))[1] = 3 * MonthSin(m)[2] + MonthCos(m)[1]
    /\ 2 * MonthSin(NextMonth(m))[2] = MonthSin(m)[1] + MonthCos(m)[2]
    /\ 2 * MonthCos(NextMonth(m))[1] = 3 * MonthCos(m)[2] - MonthSin(m)[1]
    /\ 2 * MonthCos(NextMonth(m))[2] = MonthCos(m)[1] - MonthSin(m)[2]

\* C7: the second and third features of a click are sin and cos of
\* 2*pi*m/12 for the month m of the text, m in 1..12 (a month outside never
\* reaches the encoding); the twelve months give twelve distinct pairs, and
\* December to January is as far as any other two adjacent months.
C7_CyclicalEncoding ==
    /\ (IsClick(log) /\ BuiltVector)
        => /\ MonthOfText(date_entry) \in 1..12
           /\ Vector[2] = MonthSin(MonthOfText(date_entry))
           /\ Vector[3] = MonthCos(MonthOfText(date_entry))
    /\ (IsClick(log) /\ ParseFloat(temp_entry).ok /\ ~IsYearMonth(date_entry))
        => ~BuiltVector
    /\ MonthSin(12) = <<0, 0>> /\ MonthCos(12) = <<2, 0>>
    /\ \A m \in 1..12 : TurnedBy30(m)
    /\ \A m, n \in 1..12 :
          m # n => <<MonthSin(m), MonthCos(m)>> # <<MonthSin(n), MonthCos(n)>>
    /\ \A m \in 1..12 : Distance2(m, NextMonth(m)) = Distance2(12, 1)

\* A click on a December date.
C7_Witness ==
    /\ IsClick(log)
    /\ BuiltVector
    /\ MonthOfText(date_entry) = 12
    /\ Vector[2] = <<0, 0>>
    /\ Vector[3] = <<2, 0>>

\* The predictions the inputs can give.
Predictions ==
    { LabelsFor(t, d) :
        t \in {x \in TempTexts : ParseFloat(x).ok},
        d \in {x \in DateTexts : ParseDate(x).ok} }

\* C8 as stated: once the window is built, the three labels all show their
\* first text or all show the values of one prediction; a click that ends in
\* a dialog changes none of them.
C8_Original ==
    /\ [](pc \in {"ui", "mainloop"}
            => (result_vars = InitialResultVars \/ result_vars \in Predictions))
    /\ [][ (pc = "mainloop" /\ Dialogs(log') # <<>>) => result_vars' = result_vars ]_vars

\* C9: a click ends with the three labels set and no dialog, or with one
\* 'Input Error' dialog, or with one 'Prediction Error' dialog, never two
\* dialogs; with both fields malformed it is one 'Input Error' dialog, raised
\* by the temperature, the date not being parsed.
C9_OneOutcomePerClick ==
    IsClick(log)
    => /\ Len(Dialogs(log)) <= 1
       /\ \/ Len(Sets(log)) = 3 /\ Dialogs(log) = <<>>
          \/ Dialogs(log) = <<ShowError("Input Error")>>
          \/ Dialogs(log) = <<ShowError("Prediction Error")>>
       /\ Dialogs(log) # <<>> => /\ log[Len(log)].op = "showerror"
                                 /\ Len(Sets(log)) < 3
       /\ (~ParseFloat(temp_entry).ok /\ ~IsYearMonth(date_entry))
            => /\ Dialogs(log) = <<ShowError("Input Error")>>
               /\ log[1].op = "float" /\ log[1].raised = "ValueError"
               /\ \A i \in 1..Len(log) : log[i].op # "strptime"

\* A click with both fields malformed.
C9_Witness ==
    /\ IsClick(log)
    /\ ~ParseFloat(temp_entry).ok
    /\ ~IsYearMonth(date_entry)
    /\ Dialogs(log) = <<ShowError("Input Error")>>

\* The latest click read the same two texts as the click that was kept.
SameFieldsAsKept ==
    memo.taken /\ IsClick(log) /\ temp_entry = memo.temp /\ date_entry = memo.date

\* The labels a click set.
SetNames(l) == {l[i].arg[1] : i \in {j \in 1..Len(l) : l[j].op = "set"}}

\* C10 as stated: two clicks with the same field contents end the same way
\* and leave the same label text, whatever clicks came before.
C10_Original ==
    SameFieldsAsKept => (Outcome(log) = memo.outcome /\ result_vars = memo.labels)

\* C10: the handler never reassigns the model or the scalers, and two clicks
\* with the same field contents end the same way whatever clicks came
\* between them, leaving the same text in every label they set; a label a
\* click does not set keeps what it had.
C10_SameFieldsSameOutcome ==
    /\ [](SameFieldsAsKept
            => /\ Outcome(log) = memo.outcome
               /\ \A k \in SetNames(log) : result_vars[k] = memo.labels[k]
               /\ Outcome(log) = "updated" => result_vars = memo.labels)
    /\ [][ pc = "mainloop"
           => /\ model' = model /\ X_scaler' = X_scaler /\ y_scaler' = y_scaler
              /\ \A k \in {"NO3", "SO4", "pH"} \ SetNames(log') :
                    result_vars'[k] = result_vars[k] ]_vars

\* The kept click updated the labels, clicks that ended in a dialog followed,
\* and the latest click, on the same texts, left the same labels.
C10_Witness ==
    /\ SameFieldsAsKept
    /\ errors_before >= 1
    /\ Outcome(log) = "updated"
    /\ memo.outcome = "updated"
    /\ result_vars = memo.labels

====
